---- MODULE Spec2Model ----
(* Batch Rubric Validator: the browser-side orchestrator                    *)
(* (src/components/RubricGrader.tsx) and the evaluation service            *)
(* (src/app/api/analyze-rubric/route.ts).                                  *)
(*                                                                         *)
(* Text is a sequence of one-character strings.  Indices are 1-based here: *)
(* the loop index i of the source is i - 1.                                *)
EXTENDS Integers, Sequences, FiniteSets, TLC

\* the component's state, its suspended runs and their requests
VARIABLES prompt, criteria, analyses, loading, error, runs, pending, log

\* the service: its environment, the request being handled, its outbound calls
VARIABLES apiKey, svc, response, providerCalls, logCall

clientVars == <<prompt, criteria, analyses, loading, error, runs, pending, log>>

svcVars == <<apiKey, svc, response, providerCalls, logCall>>

vars == <<clientVars, svcVars>>

----------------------------------------------------------------------------
(* Bounds and input sets *)

\* most lines the user types into the criteria box
MaxLines == 2

\* most invocations of analyzeCriteria suspended at an await at once
MaxRuns == 2

NL == "\n"
SP == " "

Whitespace == {SP, NL}

\* the lines the user types: blank, plain, and padded
LineTexts == {<<SP>>, <<"a">>, <<SP, "b">>}

\* what the user types into the prompt box, empty at first
Prompts == {<<SP>>, <<SP, "p">>}

\* the JSON body of a 2xx reply
Verdicts == {"verdict"}

null == "null"

undefined == "undefined"

----------------------------------------------------------------------------
(* String.prototype.trim, String.prototype.split('\n'), Array.filter *)

RECURSIVE trimStart(_)
trimStart(s) ==
    IF s # <<>> /\ Head(s) \in Whitespace THEN trimStart(Tail(s)) ELSE s

RECURSIVE trimEnd(_)
trimEnd(s) ==
    IF s # <<>> /\ s[Len(s)] \in Whitespace
    THEN trimEnd(SubSeq(s, 1, Len(s) - 1))
    ELSE s

trim(s) == trimEnd(trimStart(s))

\* s.split('\n'): always at least one piece; k + 1 pieces for k separators
RECURSIVE split(_)
split(s) ==
    IF \A k \in 1..Len(s) : s[k] # NL THEN <<s>>
    ELSE LET k == CHOOSE j \in 1..Len(s) :
                      s[j] = NL /\ \A m \in 1..(j - 1) : s[m] # NL
         IN  <<SubSeq(s, 1, k - 1)>> \o split(SubSeq(s, k + 1, Len(s)))

RECURSIVE filterNonEmpty(_)
filterNonEmpty(xs) ==
    IF xs = <<>> THEN <<>>
    ELSE IF Len(Head(xs)) > 0
         THEN <<Head(xs)>> \o filterNonEmpty(Tail(xs))
         ELSE filterNonEmpty(Tail(xs))

mapTrim(xs) == [k \in 1..Len(xs) |-> trim(xs[k])]

\* faulty variant: the lines are trimmed but blank ones are kept
criteriaListUnfiltered(c) == mapTrim(split(c))

\* criteria.split('\n').map(c => c.trim()).filter(c => c.length > 0)
criteriaList(c) == filterNonEmpty(mapTrim(split(c)))

----------------------------------------------------------------------------
(* analyzeCriteria: the synchronous part *)

MsgBoth == "Please provide both the original prompt and the rubric criteria"

MsgNoValid == "No valid criteria found"

MsgFailed == "Failed to analyze criterion"

\* err.message of an Error the code did not throw itself (a rejected fetch, a
\* rejected response.json()): the text is the runtime's
MsgRejected == "err.message"

\* faulty variant: the prompt is tested without trimming
validationErrorUntrimmed(p, c) ==
    IF p = <<>> \/ trim(c) = <<>> THEN MsgBoth
    ELSE IF Len(criteriaList(c)) = 0 THEN MsgNoValid
    ELSE ""

\* the message set by analyzeCriteria's input checks, "" when the input passes
validationError(p, c) ==
    IF trim(p) = <<>> \/ trim(c) = <<>> THEN MsgBoth
    ELSE IF Len(criteriaList(c)) = 0 THEN MsgNoValid
    ELSE ""

\* faulty variant: the new records are appended to those of the previous run
initialAnalysesAppended(list) ==
    analyses \o [k \in 1..Len(list) |->
        [criterion |-> list[k], result |-> null, expanded |-> FALSE,
         loading |-> TRUE, error |-> undefined]]

initialAnalyses(list) ==
    [k \in 1..Len(list) |->
        [criterion |-> list[k], result |-> null, expanded |-> FALSE,
         loading |-> TRUE, error |-> undefined]]

\* faulty variant: the button is never disabled
buttonAlwaysEnabled == TRUE

\* <button onClick={analyzeCriteria} disabled={loading}>
buttonEnabled == ~loading

\* faulty variant: a request is issued a second time
fetchTwice(p, list, i) ==
    <<[prompt |-> trim(p), criterion |-> list[i], idx |-> i],
      [prompt |-> trim(p), criterion |-> list[i], idx |-> i]>>

\* faulty variant: the iteration does not await, so the remaining fetches go out with it
fetchAllFrom(p, list, i) ==
    [k \in 1..(Len(list) - i + 1) |->
        [prompt |-> trim(p), criterion |-> list[i + k - 1], idx |-> i + k - 1]]

\* the fetch call of loop iteration i, as the requests it puts on the wire
fetchAt(p, list, i) ==
    <<[prompt |-> trim(p), criterion |-> list[i], idx |-> i]>>

----------------------------------------------------------------------------
(* State updaters passed to setAnalyses *)

\* faulty variant: the record is rebuilt, not spread, and loses its expanded value
setResultCollapses(prev, i, result) ==
    [k \in 1..Len(prev) |->
        IF k = i THEN [prev[k] EXCEPT !.result = result, !.loading = FALSE, !.expanded = FALSE]
        ELSE prev[k]]

setResult(prev, i, result) ==
    [k \in 1..Len(prev) |->
        IF k = i THEN [prev[k] EXCEPT !.result = result, !.loading = FALSE]
        ELSE prev[k]]

\* faulty variant: the updater forgets loading: false
setItemErrorKeepsLoading(prev, i, msg) ==
    [k \in 1..Len(prev) |->
        IF k = i THEN [prev[k] EXCEPT !.error = msg]
        ELSE prev[k]]

\* faulty variant: the updater forgets the index test
setItemErrorAll(prev, i, msg) ==
    [k \in 1..Len(prev) |-> [prev[k] EXCEPT !.error = msg, !.loading = FALSE]]

setItemError(prev, i, msg) ==
    [k \in 1..Len(prev) |->
        IF k = i THEN [prev[k] EXCEPT !.error = msg, !.loading = FALSE]
        ELSE prev[k]]

\* faulty variant: the row is opened, never closed
toggleExpandedOpens(prev, index) ==
    [k \in 1..Len(prev) |->
        IF k = index THEN [prev[k] EXCEPT !.expanded = TRUE]
        ELSE prev[k]]

toggleExpanded(prev, index) ==
    [k \in 1..Len(prev) |->
        IF k = index THEN [prev[k] EXCEPT !.expanded = ~prev[k].expanded]
        ELSE prev[k]]

\* faulty variant: the try block starts after the fetch, so a rejected fetch escapes
caughtAfterFetch(kind) == kind # "network"

\* try { ... } catch (err) { ... }: which failures of an iteration are caught
caught(kind) == TRUE

----------------------------------------------------------------------------
(* The evaluation service: POST of route.ts *)

\* process.env.CLAUDE_API_KEY: unset, set to the empty string, set
KeyValues == {undefined, "", "sk-key"}

\* the value of a field the request body does not have
missing == <<undefined>>

\* the fields of the request body: missing, empty, given
PromptValues == {missing, <<>>, <<"p">>}

CriterionValues == {missing, <<>>, <<"a">>, <<"b">>}

noBody == [json |-> FALSE, prompt |-> missing, criterion |-> missing]

\* request bodies: not JSON at all, or an object with the two fields
Bodies == {noBody} \cup [json : {TRUE}, prompt : PromptValues, criterion : CriterionValues]

\* non-success statuses of the provider, and the body text it sends with them
ProviderErrorStatuses == {429, 529}

ProviderErrorTexts == {"rate_limit_error", "overloaded_error"}

\* the text payload of a provider reply, as a sequence of tokens
ModelTexts ==
    { <<"{verdict}">>, <<SP, "{verdict}", NL>>, <<"~~~", "{verdict}", "~~~">>,
      <<"prose">>, <<SP>>, <<"null">>, <<"5">>, <<"{}">> }

\* what anthropicResponse.json() resolves to: data without content, with an
\* empty content, with a first block that has no text, or with a text
ProviderData ==
    {[shape |-> sh, text |-> <<>>] : sh \in {"noContent", "emptyContent", "noText"}}
        \cup [shape : {"text"}, text : ModelTexts]

\* what the provider answered: nothing yet, a status with its error text, or a
\* success status with its data
noData == [shape |-> "none", text |-> <<>>]

noUpstream == [status |-> 0, text |-> "", data |-> noData]

\* Response.ok
ok(status) == status \in 200..299

MsgConfig == <<"Server configuration error: API key not found">>

MsgRequired == <<"Both prompt and criterion are required">>

MsgFormat == <<"Invalid response format from Claude API">>

MsgParse == <<"Error parsing Claude response">>

\* error.message of what the outer catch receives
MsgThrown == <<"error.message">>

msgUpstream(errorText) == <<"Error from Claude API: ", errorText>>

noResponse == [status |-> 0, message |-> <<>>, json |-> undefined]

\* NextResponse.json({ message }, { status })
errorResponse(status, message) == [status |-> status, message |-> message, json |-> undefined]

\* NextResponse.json(evaluation)
okResponse(evaluation) == [status |-> 200, message |-> <<>>, json |-> evaluation]

\* faulty variant: the credential is not checked
credentialMissingNever(key) == FALSE

\* !process.env.CLAUDE_API_KEY
credentialMissing(key) == key = undefined \/ key = ""

\* faulty variant: only the prompt is looked at
fieldsMissingPromptOnly(body) == body.prompt = missing \/ body.prompt = <<>>

\* !prompt || !criterion
fieldsMissing(body) ==
    \/ body.prompt = missing \/ body.prompt = <<>>
    \/ body.criterion = missing \/ body.criterion = <<>>

\* faulty variant: every failure of the provider is answered 500
upstreamResponseAs500(status, errorText) == errorResponse(500, msgUpstream(errorText))

\* the answer to a non-success status of the provider
upstreamResponse(status, errorText) == errorResponse(status, msgUpstream(errorText))

\* faulty variant: the handler waits for the logging endpoint
awaitsLoggingTrue == TRUE

\* whether POST awaits its fetch of the logging endpoint
awaitsLogging == FALSE

\* JSON.parse of a token sequence: the value, or SyntaxError
jsonParse(text) ==
    IF Len(text) = 1 /\ text[1] \in {"{verdict}", "null", "5", "{}"} THEN text[1]
    ELSE "SyntaxError"

\* !data.content || !data.content[0] || !data.content[0].text
payloadMissing(data) == data.shape # "text" \/ data.text = <<>>

\* the handler between requests
idleService == [pc |-> "idle", body |-> noBody, upstream |-> noUpstream]

----------------------------------------------------------------------------
Init ==
    /\ prompt = <<>>
    /\ criteria = <<>>
    /\ analyses = <<>>
    /\ loading = FALSE
    /\ error = ""
    /\ runs = <<>>
    /\ pending = <<>>
    /\ log = <<>>
    /\ apiKey = undefined
    /\ svc = idleService
    /\ response = noResponse
    /\ providerCalls = <<>>
    /\ logCall = "none"

\* onChange of the two text areas
SetPrompt ==
    /\ \E p \in Prompts : prompt' = p
    /\ UNCHANGED <<criteria, analyses, loading, error, runs, pending, log, svcVars>>

\* the user types one more line into the criteria box
TypeLine ==
    /\ criteria = <<>> \/ Len(split(criteria)) < MaxLines
    /\ \E t \in LineTexts :
          criteria' = IF criteria = <<>> THEN t ELSE criteria \o <<NL>> \o t
    /\ UNCHANGED <<prompt, analyses, loading, error, runs, pending, log, svcVars>>

\* the user empties the criteria box
ClearCriteria ==
    /\ criteria' = <<>>
    /\ UNCHANGED <<prompt, analyses, loading, error, runs, pending, log, svcVars>>

sends(reqs) == [k \in 1..Len(reqs) |-> <<"send", reqs[k].idx>>]

\* a click on the button: analyzeCriteria up to its first await
ClickAnalyze ==
    /\ buttonEnabled
    /\ Len(runs) < MaxRuns
    /\ LET msg == validationError(prompt, criteria)
           list == criteriaList(criteria)
       IN  IF msg # ""
           THEN /\ error' = msg
                /\ UNCHANGED <<analyses, loading, runs, pending, log>>
           ELSE /\ loading' = TRUE
                /\ error' = ""
                /\ analyses' = initialAnalyses(list)
                /\ runs' = Append(runs, [prompt |-> prompt, criteriaList |-> list,
                                         i |-> 1, pc |-> "fetch"])
                /\ pending' = pending \o fetchAt(prompt, list, 1)
                /\ log' = sends(fetchAt(prompt, list, 1))
    /\ UNCHANGED <<prompt, criteria, svcVars>>

removeAt(s, k) == SubSeq(s, 1, k - 1) \o SubSeq(s, k + 1, Len(s))

removeReq(reqs, r) ==
    LET k == CHOOSE j \in 1..Len(reqs) : reqs[j] = r /\ \A m \in 1..(j - 1) : reqs[m] # r
    IN  removeAt(reqs, k)

\* the request that iteration run.i awaits
requestOf(run) == pending[CHOOSE j \in 1..Len(pending) : pending[j].idx = run.i]

\* faulty variant: the loop reads the prompt box as it is now
promptOfBox(run) == prompt

\* prompt, as the closure of analyzeCriteria holds it
promptOf(run) == run.prompt

\* faulty variant: the loop stops one criterion short
hasNextShort(run) == run.i + 1 < Len(run.criteriaList)

\* i++; i < criteriaList.length, with the model's indices from 1
hasNext(run) == run.i + 1 <= Len(run.criteriaList)

\* the end of loop iteration run.i: the next iteration's fetch, or setLoading(false)
advance(r, run, settledPending, settledLog) ==
    IF hasNext(run)
    THEN /\ runs' = [runs EXCEPT ![r] = [run EXCEPT !.i = run.i + 1, !.pc = "fetch"]]
         /\ pending' = settledPending \o fetchAt(promptOf(run), run.criteriaList, run.i + 1)
         /\ log' = settledLog \o sends(fetchAt(promptOf(run), run.criteriaList, run.i + 1))
         /\ UNCHANGED loading
    ELSE /\ runs' = removeAt(runs, r)
         /\ pending' = settledPending
         /\ log' = settledLog
         /\ loading' = FALSE

\* an iteration fails with err of the given kind and message
fail(r, run, kind, msg) ==
    LET settledPending == removeReq(pending, requestOf(run))
        settledLog == Append(log, <<"fail", run.i>>)
    IN  IF caught(kind)
        THEN /\ analyses' = setItemError(analyses, run.i, msg)
             /\ advance(r, run, settledPending, settledLog)
        ELSE /\ runs' = removeAt(runs, r)
             /\ pending' = settledPending
             /\ log' = settledLog
             /\ UNCHANGED <<analyses, loading>>

\* await fetch(...) rejects: a network error
FetchRejects ==
    /\ \E r \in 1..Len(runs) :
        /\ runs[r].pc = "fetch"
        /\ fail(r, runs[r], "network", MsgRejected)
    /\ UNCHANGED <<prompt, criteria, error, svcVars>>

\* await fetch(...) resolves with a non-2xx status: !response.ok
FetchNotOk ==
    /\ \E r \in 1..Len(runs) :
        /\ runs[r].pc = "fetch"
        /\ fail(r, runs[r], "status", MsgFailed)
    /\ UNCHANGED <<prompt, criteria, error, svcVars>>

\* await fetch(...) resolves with a 2xx status: on to await response.json()
FetchOk ==
    /\ \E r \in 1..Len(runs) :
        /\ runs[r].pc = "fetch"
        /\ runs' = [runs EXCEPT ![r].pc = "json"]
    /\ UNCHANGED <<prompt, criteria, analyses, loading, error, pending, log, svcVars>>

\* await response.json() rejects: the reply is not JSON
JsonRejects ==
    /\ \E r \in 1..Len(runs) :
        /\ runs[r].pc = "json"
        /\ fail(r, runs[r], "json", MsgRejected)
    /\ UNCHANGED <<prompt, criteria, error, svcVars>>

\* await response.json() resolves
JsonResolves ==
    /\ \E r \in 1..Len(runs), result \in Verdicts :
        /\ runs[r].pc = "json"
        /\ analyses' = setResult(analyses, runs[r].i, result)
        /\ advance(r, runs[r], removeReq(pending, requestOf(runs[r])),
                   Append(log, <<"ok", runs[r].i>>))
    /\ UNCHANGED <<prompt, criteria, error, svcVars>>

\* a click on a row
ToggleExpanded ==
    /\ \E index \in 1..Len(analyses) : analyses' = toggleExpanded(analyses, index)
    /\ UNCHANGED <<prompt, criteria, loading, error, runs, pending, log, svcVars>>

Next ==
    \/ SetPrompt
    \/ TypeLine
    \/ ClearCriteria
    \/ ClickAnalyze
    \/ FetchRejects
    \/ FetchNotOk
    \/ FetchOk
    \/ JsonRejects
    \/ JsonResolves
    \/ ToggleExpanded

Spec == Init /\ [][Next]_vars

----------------------------------------------------------------------------
(* The service's steps *)

\* the deployment sets or unsets the credential between requests
Configure ==
    /\ svc.pc \in {"idle", "done"}
    /\ \E k \in KeyValues : apiKey' = k
    /\ UNCHANGED <<svc, response, providerCalls, logCall, clientVars>>

respond(r) ==
    /\ response' = r
    /\ svc' = [svc EXCEPT !.pc = "done"]

\* POST up to its await of the provider, for a request with this body
receive(body) ==
    /\ IF credentialMissing(apiKey)
       THEN /\ response' = errorResponse(500, MsgConfig)
            /\ svc' = [pc |-> "done", body |-> body, upstream |-> noUpstream]
            /\ providerCalls' = <<>>
       ELSE IF ~body.json
       THEN /\ response' = errorResponse(500, MsgThrown)
            /\ svc' = [pc |-> "done", body |-> body, upstream |-> noUpstream]
            /\ providerCalls' = <<>>
       ELSE IF fieldsMissing(body)
       THEN /\ response' = errorResponse(400, MsgRequired)
            /\ svc' = [pc |-> "done", body |-> body, upstream |-> noUpstream]
            /\ providerCalls' = <<>>
       ELSE /\ response' = noResponse
            /\ svc' = [pc |-> "provider", body |-> body, upstream |-> noUpstream]
            /\ providerCalls' = <<[key |-> apiKey, prompt |-> body.prompt,
                                   criterion |-> body.criterion]>>
    /\ logCall' = "none"
    /\ UNCHANGED apiKey

\* a request arrives
Receive ==
    /\ svc.pc \in {"idle", "done"}
    /\ \E body \in Bodies : receive(body)
    /\ UNCHANGED clientVars

\* the fetch of the provider rejects
ProviderRejects ==
    /\ svc.pc = "provider"
    /\ respond(errorResponse(500, MsgThrown))
    /\ UNCHANGED <<clientVars, apiKey, providerCalls, logCall>>

\* the provider answers with a non-success status and an error text
ProviderNotOk ==
    /\ svc.pc = "provider"
    /\ \E s \in ProviderErrorStatuses, errorText \in ProviderErrorTexts :
          /\ response' = upstreamResponse(s, errorText)
          /\ svc' = [svc EXCEPT !.pc = "done",
                                !.upstream = [status |-> s, text |-> errorText, data |-> noData]]
    /\ UNCHANGED <<clientVars, apiKey, providerCalls, logCall>>

\* the provider answers with a success status; its body is not JSON
ProviderBodyRejects ==
    /\ svc.pc = "provider"
    /\ response' = errorResponse(500, MsgThrown)
    /\ svc' = [svc EXCEPT !.pc = "done", !.upstream = [noUpstream EXCEPT !.status = 200]]
    /\ UNCHANGED <<clientVars, apiKey, providerCalls, logCall>>

\* the provider answers with a success status and a JSON body
ProviderOk ==
    /\ svc.pc = "provider"
    /\ \E data \in ProviderData :
        LET replied == [svc EXCEPT !.upstream = [status |-> 200, text |-> "", data |-> data]]
        IN  IF payloadMissing(data)
            THEN /\ response' = errorResponse(500, MsgFormat)
                 /\ svc' = [replied EXCEPT !.pc = "done"]
                 /\ UNCHANGED logCall
            ELSE LET evaluation == jsonParse(trim(data.text))
                 IN  IF evaluation \in {"SyntaxError", "null"}
                     THEN /\ response' = errorResponse(500, MsgParse)
                          /\ svc' = [replied EXCEPT !.pc = "done"]
                          /\ UNCHANGED logCall
                     ELSE /\ logCall' = "inflight"
                          /\ IF awaitsLogging
                             THEN /\ svc' = [replied EXCEPT !.pc = "logging"]
                                  /\ UNCHANGED response
                             ELSE /\ response' = okResponse(evaluation)
                                  /\ svc' = [replied EXCEPT !.pc = "done"]
    /\ UNCHANGED <<clientVars, apiKey, providerCalls>>

\* the submission to the logging endpoint settles; .catch swallows a failure
LogSettles ==
    /\ logCall = "inflight"
    /\ \E outcome \in {"ok", "failed"} : logCall' = outcome
    /\ IF svc.pc = "logging"
       THEN respond(okResponse(jsonParse(trim(svc.upstream.data.text))))
       ELSE UNCHANGED <<svc, response>>
    /\ UNCHANGED <<clientVars, apiKey, providerCalls>>

ServiceNext ==
    \/ Configure
    \/ Receive
    \/ ProviderRejects
    \/ ProviderNotOk
    \/ ProviderBodyRejects
    \/ ProviderOk
    \/ LogSettles

ServiceSpec == Init /\ [][ServiceNext]_vars

\* a request, once issued, settles; a reply, once received, is read
FetchSettles == FetchRejects \/ FetchNotOk \/ FetchOk

JsonSettles == JsonRejects \/ JsonResolves

FairSpec == Spec /\ WF_vars(FetchSettles) /\ WF_vars(JsonSettles)

----------------------------------------------------------------------------
(* The page and the route together: the requests of the page are the       *)
(* requests POST handles, and the replies of POST are what the page reads. *)
(* A message is delivered whole or not at all.                             *)

\* the text of the criteria box made of these lines
RECURSIVE joinLines(_)
joinLines(lines) ==
    IF Len(lines) = 1 THEN lines[1]
    ELSE joinLines(SubSeq(lines, 1, Len(lines) - 1)) \o <<NL>> \o lines[Len(lines)]

\* what the user may have typed into the criteria box
Blocks == {<<>>} \cup {joinLines(ls) : ls \in UNION {[1..n -> LineTexts] : n \in 1..MaxLines}}

\* JSON.stringify of the page's request, read back by request.json()
wire(req) == [json |-> TRUE, prompt |-> req.prompt, criterion |-> req.criterion]

\* the page with text in its boxes, the route deployed with or without its key
SystemInit ==
    /\ prompt \in {<<>>} \cup Prompts
    /\ criteria \in Blocks
    /\ analyses = <<>>
    /\ loading = FALSE
    /\ error = ""
    /\ runs = <<>>
    /\ pending = <<>>
    /\ log = <<>>
    /\ apiKey \in KeyValues
    /\ svc = idleService
    /\ response = noResponse
    /\ providerCalls = <<>>
    /\ logCall = "none"

\* the request of the page reaches POST
Deliver ==
    /\ svc.pc = "idle"
    /\ \E r \in 1..Len(runs) :
          /\ runs[r].pc = "fetch"
          /\ receive(wire(requestOf(runs[r])))
    /\ UNCHANGED clientVars

\* the reply has been handed to the page; the handler is done with the request
released ==
    /\ svc' = idleService
    /\ response' = noResponse
    /\ UNCHANGED <<apiKey, providerCalls, logCall>>

\* the request or its reply is lost: await fetch(...) rejects
NetworkFails ==
    /\ svc.pc \in {"idle", "done"}
    /\ \E r \in 1..Len(runs) :
          /\ runs[r].pc = "fetch"
          /\ fail(r, runs[r], "network", MsgRejected)
    /\ released
    /\ UNCHANGED <<prompt, criteria, error>>

\* the reply of POST has a non-2xx status: !response.ok
ReplyNotOk ==
    /\ svc.pc = "done"
    /\ ~ok(response.status)
    /\ \E r \in 1..Len(runs) :
          /\ runs[r].pc = "fetch"
          /\ fail(r, runs[r], "status", MsgFailed)
    /\ released
    /\ UNCHANGED <<prompt, criteria, error>>

\* the reply of POST has a 2xx status: on to await response.json()
ReplyOk ==
    /\ svc.pc = "done"
    /\ ok(response.status)
    /\ \E r \in 1..Len(runs) :
          /\ runs[r].pc = "fetch"
          /\ runs' = [runs EXCEPT ![r].pc = "json"]
    /\ UNCHANGED <<prompt, criteria, analyses, loading, error, pending, log, svcVars>>

\* await response.json() resolves with the body POST sent
ReplyJson ==
    /\ svc.pc = "done"
    /\ \E r \in 1..Len(runs) :
          /\ runs[r].pc = "json"
          /\ analyses' = setResult(analyses, runs[r].i, response.json)
          /\ advance(r, runs[r], removeReq(pending, requestOf(runs[r])),
                     Append(log, <<"ok", runs[r].i>>))
    /\ released
    /\ UNCHANGED <<prompt, criteria, error>>

SystemNext ==
    \/ ClickAnalyze
    \/ ToggleExpanded
    \/ Deliver
    \/ ProviderRejects
    \/ ProviderNotOk
    \/ ProviderBodyRejects
    \/ ProviderOk
    \/ LogSettles
    \/ NetworkFails
    \/ ReplyNotOk
    \/ ReplyOk
    \/ ReplyJson

SystemSpec == SystemInit /\ [][SystemNext]_vars

----------------------------------------------------------------------------
(* Vocabulary of the properties *)

texts(recs) == [k \in 1..Len(recs) |-> recs[k].criterion]

isBlank(t) == \A k \in 1..Len(t) : t[k] \in Whitespace

\* the positions of the line breaks of block c, with both ends of the block
breaks(c) == {0, Len(c) + 1} \cup {k \in 1..Len(c) : c[k] = NL}

\* line m of block c, by position
lineAt(c, m) ==
    LET lo == CHOOSE b \in breaks(c) : Cardinality({x \in breaks(c) : x < b}) = m - 1
        hi == CHOOSE b \in breaks(c) : Cardinality({x \in breaks(c) : x < b}) = m
    IN  SubSeq(c, lo + 1, hi - 1)

\* t without the whitespace around its first and last non-whitespace character
stripped(t) ==
    LET ink == {k \in 1..Len(t) : t[k] \notin Whitespace}
    IN  IF ink = {} THEN <<>>
        ELSE SubSeq(t, CHOOSE k \in ink : \A x \in ink : k <= x,
                       CHOOSE k \in ink : \A x \in ink : k >= x)

\* recs holds the non-blank lines of block c, stripped, one each, in order
holdsLinesOf(recs, c) ==
    LET n == Cardinality(breaks(c)) - 1
        kept == {m \in 1..n : ~isBlank(lineAt(c, m))}
    IN  /\ Len(recs) = Cardinality(kept)
        /\ \A m \in kept :
              recs[Cardinality({x \in kept : x <= m})] = stripped(lineAt(c, m))

\* this step extends the log, and its first new entry is ev
logs(ev) ==
    /\ Len(log') > Len(log)
    /\ SubSeq(log', 1, Len(log)) = log
    /\ log'[Len(log) + 1] = ev

\* this step settles the request of index k
settles(k) == logs(<<"ok", k>>) \/ logs(<<"fail", k>>)

\* this step starts a run
starts == Len(runs') > Len(runs)

isSettled(rec) == ~rec.loading

----------------------------------------------------------------------------
(* C1: the records created at run start are the non-blank lines of the     *)
(* criteria block, trimmed, one per line, in line order, duplicates kept;  *)
(* no later step of the run changes their number, order or text.           *)
C1_Step ==
    IF starts THEN holdsLinesOf(texts(analyses'), criteria)
    ELSE texts(analyses') = texts(analyses)

C1_RecordsAreLines == [][C1_Step]_vars

\* a run over a padded line and a plain one, the first settled, the second toggled
C1_Witness ==
    /\ loading
    /\ texts(analyses) = << <<"b">>, <<"a">> >>
    /\ isSettled(analyses[1])
    /\ analyses[2].expanded

(* C2: within a run the requests go out one at a time in index order: the  *)
(* request of index k + 1 is sent only right after that of k has settled,  *)
(* and at most one request is in flight in any state.                      *)
C2_OneAtATime ==
    /\ Len(pending) <= 1
    /\ \A n \in 1..Len(log) :
          log[n][1] = "send" =>
            /\ log[n][2] = Cardinality({m \in 1..n : log[m][1] = "send"})
            /\ n > 1 => log[n - 1][1] \in {"ok", "fail"} /\ log[n - 1][2] = log[n][2] - 1
    /\ Cardinality({m \in 1..Len(log) : log[m][1] = "send"})
         - Cardinality({m \in 1..Len(log) : log[m][1] # "send"}) = Len(pending)

\* the second request is in flight, the first has settled
C2_Witness ==
    /\ Len(pending) = 1
    /\ pending[1].idx = 2
    /\ log = << <<"send", 1>>, <<"ok", 1>>, <<"send", 2>> >>

(* C3, as stated: a rejected trigger (the run-level error is set) leaves   *)
(* zero records.                                                           *)
C3_RejectedLeavesNoRecords == error # "" => Len(analyses) = 0

(* C3, amended: a trigger with a blank prompt or a blank criteria block    *)
(* sets a non-empty run-level error, creates no record, leaves the record  *)
(* list as it was and issues no request; no run starts on such input.      *)
C3_Step ==
    /\ ClickAnalyze /\ (isBlank(prompt) \/ isBlank(criteria)) =>
          /\ error' # ""
          /\ analyses' = analyses
          /\ pending' = pending
          /\ log' = log
          /\ runs' = runs
          /\ loading' = loading
    /\ starts => ~isBlank(prompt) /\ ~isBlank(criteria)

C3_RejectedChangesNothing == [][C3_Step]_vars

\* a rejected trigger after a run that left records
C3_Witness ==
    /\ error # ""
    /\ Len(analyses) > 0
    /\ \A k \in 1..Len(analyses) : isSettled(analyses[k])

(* C4: when the request of an index that is not the last fails, the        *)
(* request of the next index is issued, whatever came before.              *)
C4_Step ==
    \A k \in 1..Len(analyses) :
        logs(<<"fail", k>>) /\ k < Len(analyses) =>
            /\ log' = log \o << <<"fail", k>>, <<"send", k + 1>> >>
            /\ \E q \in 1..Len(pending') : pending'[q].idx = k + 1
            /\ loading'

C4_ContinuesAfterFailure == [][C4_Step]_vars

\* the second request was sent after the first failed
C4_Witness ==
    /\ log = << <<"send", 1>>, <<"fail", 1>>, <<"send", 2>> >>
    /\ analyses[1].error = MsgRejected

(* C5: settling the request of index k changes no record at another index  *)
(* and never sets the run-level error.                                     *)
C5_Step ==
    \A k \in 1..Len(analyses) :
        settles(k) =>
            /\ Len(analyses') = Len(analyses)
            /\ \A j \in 1..Len(analyses) : j # k => analyses'[j] = analyses[j]
            /\ error' = error

C5_SettleIsLocal == [][C5_Step]_vars

\* the first request failed while the second record, toggled open, still loads
C5_Witness ==
    /\ Len(analyses) = 2
    /\ analyses[1].error # undefined
    /\ analyses[2].loading
    /\ analyses[2].expanded
    /\ error = ""

(* C6: at most one run is in progress: the in-progress flag is set exactly *)
(* while a run is suspended at an await, and there is never a second one.  *)
C6_OneRun ==
    /\ Len(runs) <= 1
    /\ loading <=> Len(runs) = 1

\* a run in progress while the text boxes hold input a click would accept
C6_Witness ==
    /\ loading
    /\ Len(runs) = 1
    /\ validationError(prompt, criteria) = ""

(* C8: every started run completes if every request settles; the          *)
(* in-progress flag is cleared only by the step that settles the last      *)
(* index, and then no record is loading.                                   *)
C8_Step ==
    loading /\ ~loading' =>
        /\ settles(Len(analyses))
        /\ pending' = <<>>
        /\ \A k \in 1..Len(analyses') : isSettled(analyses'[k])

C8_RunCompletes == (loading ~> ~loading) /\ [][C8_Step]_vars

\* a finished run of two criteria, one of which failed
C8_Witness ==
    /\ ~loading
    /\ Len(analyses) = 2
    /\ analyses[1].error # undefined
    /\ analyses[2].result # null

(* C9: a toggle flips the expanded value of one record and changes nothing *)
(* else; a second toggle of the same index right after restores the list.  *)
C9_Step ==
    (analyses' # analyses /\ log' = log) =>
        \E k \in 1..Len(analyses) :
            /\ Len(analyses') = Len(analyses)
            /\ analyses'[k] = [analyses[k] EXCEPT !.expanded = ~analyses[k].expanded]
            /\ \A j \in 1..Len(analyses) : j # k => analyses'[j] = analyses[j]
            /\ toggleExpanded(analyses', k) = analyses

C9_ToggleIsInvolution == [][C9_Step]_vars

\* one record toggled open beside one left closed
C9_Witness ==
    /\ Len(analyses) = 2
    /\ analyses[1].expanded
    /\ ~analyses[2].expanded

(* C10: a request that arrives while the credential is absent from the     *)
(* environment is answered with status 500 and the configuration-error     *)
(* message, whatever its body, and no call goes out to the provider or to  *)
(* the logging endpoint.                                                   *)
C10_Step ==
    Receive /\ apiKey = undefined =>
        /\ response' = errorResponse(500, MsgConfig)
        /\ providerCalls' = <<>>
        /\ logCall' = "none"
        /\ svc'.pc = "done"

C10_NoCredentialNoCall == [][C10_Step]_vars

\* a well-formed request answered with the configuration error
C10_Witness ==
    /\ apiKey = undefined
    /\ svc.pc = "done"
    /\ svc.body.json /\ ~fieldsMissing(svc.body)
    /\ response = errorResponse(500, MsgConfig)
    /\ providerCalls = <<>>

----------------------------------------------------------------------------
\* Vocabulary of the claims about the evaluation service.

\* a prompt or criterion that is missing or empty
lacks(field) == field = missing \/ field = <<>>

lacksField(body) == lacks(body.prompt) \/ lacks(body.criterion)

credentialAbsent == apiKey = undefined \/ apiKey = ""

----------------------------------------------------------------------------
\* C11 as stated: every request whose prompt or criterion is missing or empty
\* is answered with status 400, and no call to the provider is made for it.
\* Refuted by a request that arrives while the credential is absent.
C11_Step0 ==
    (Receive /\ svc'.body.json /\ lacksField(svc'.body))
        => (response'.status = 400 /\ providerCalls' = <<>>)

C11_MissingFieldIs400 == [][C11_Step0]_vars

\* C11, amended: a JSON request whose prompt or criterion is missing or empty
\* makes no call to the provider; it is answered with status 400 and the
\* message that both are required when the credential is present, and with
\* the configuration error, status 500, when the credential is absent.
C11_Step ==
    (Receive /\ svc'.body.json /\ lacksField(svc'.body))
        => /\ providerCalls' = <<>>
           /\ svc'.pc = "done"
           /\ ~credentialAbsent => response' = [status |-> 400, message |-> MsgRequired, json |-> undefined]
           /\ credentialAbsent => response' = [status |-> 500, message |-> MsgConfig, json |-> undefined]

C11_MissingFieldNoCall == [][C11_Step]_vars

\* a request with a prompt and an empty criterion was answered 400
C11_Witness ==
    /\ svc.pc = "done"
    /\ svc.body = [json |-> TRUE, prompt |-> <<"p">>, criterion |-> <<>>]
    /\ response.status = 400
    /\ apiKey = "sk-key"
    /\ providerCalls = <<>>

----------------------------------------------------------------------------
\* the provider's success reply carries a text payload
hasText(data) == data.shape = "text" /\ data.text # <<>>

\* the text is, apart from surrounding whitespace, the JSON of a Verdict
isVerdictText(text) == stripped(text) = <<"{verdict}">>

\* the handler has answered a success reply of the provider that had a JSON body
answeredReply == svc.pc = "done" /\ svc.upstream.status = 200 /\ svc.upstream.data # noData

\* C13: the service responds 200 only when the provider's success reply has the
\* text payload and that text parses as a Verdict; a reply without the payload
\* is answered 500 with the fixed format message, a text that does not parse
\* as a Verdict is answered 500 with the fixed parse message, and neither
\* message holds the model's text.
\* Refuted: a text that is JSON but no Verdict ("{}", "5") is answered 200.
C13_OkOnlyForVerdict ==
    /\ response.status = 200
          => (answeredReply /\ hasText(svc.upstream.data) /\ isVerdictText(svc.upstream.data.text))
    /\ (answeredReply /\ ~hasText(svc.upstream.data))
          => response = [status |-> 500, message |-> MsgFormat, json |-> undefined]
    /\ (answeredReply /\ hasText(svc.upstream.data) /\ ~isVerdictText(svc.upstream.data.text))
          => response = [status |-> 500, message |-> MsgParse, json |-> undefined]

----------------------------------------------------------------------------
\* the step that issues the logging call, and the step in which it settles
issuesLog == logCall # "inflight" /\ logCall' = "inflight"

logSettles == logCall = "inflight" /\ logCall' \in {"ok", "failed"}

\* C14: the logging submission is fire-and-forget. The step that issues it
\* already returns status 200 with the parsed value of the model's text, so
\* the response does not wait for the logging call; and when the call settles,
\* with success or with failure, the response and the handler are as they
\* were. (A call that never settles is the state C14_Witness.)
C14_Step ==
    /\ issuesLog =>
          /\ svc'.pc = "done"
          /\ response' = [status |-> 200, message |-> <<>>,
                          json |-> stripped(svc'.upstream.data.text)[1]]
    /\ logSettles =>
          /\ svc.pc = "done"
          /\ response.status = 200
          /\ UNCHANGED <<response, svc, providerCalls>>

C14_LoggingIsFireAndForget == [][C14_Step]_vars

\* the response has been returned while the logging call is still in flight
C14_Witness ==
    /\ svc.pc = "done"
    /\ response.status = 200
    /\ response.json = "{verdict}"
    /\ logCall = "inflight"

----------------------------------------------------------------------------
\* this step is a click on a row: the records change and no request moves
toggles == analyses' # analyses /\ log' = log

\* records a and b differ at most in expanded
sameButExpanded(a, b) ==
    /\ a.criterion = b.criterion
    /\ a.loading = b.loading
    /\ a.result = b.result
    /\ a.error = b.error

\* C15: toggleExpanded does not interact with loading or network state. In
\* every state every record can be toggled, whether requests are pending or
\* the record's own request has failed; a toggle changes no record's loading,
\* verdict or error, nor the in-progress flag, the run-level error or the
\* requests in flight; and the step that records the response or the failure
\* of index k leaves the expanded value of record k as the last toggle set it.
C15_Step ==
    /\ \A k \in 1..Len(analyses) :
          ENABLED (ToggleExpanded /\ analyses'[k].expanded # analyses[k].expanded)
    /\ toggles =>
          /\ Len(analyses') = Len(analyses)
          /\ \A k \in 1..Len(analyses) : sameButExpanded(analyses'[k], analyses[k])
          /\ UNCHANGED <<loading, error, runs, pending, prompt, criteria>>
    /\ \A k \in 1..Len(analyses) :
          settles(k) => analyses'[k].expanded = analyses[k].expanded

C15_ToggleIsIndependent == [][C15_Step]_vars

\* a failed record and a record whose request is pending, both toggled open
C15_Witness ==
    /\ loading
    /\ Len(analyses) = 2
    /\ analyses[1].error # undefined /\ analyses[1].expanded
    /\ analyses[2].loading /\ analyses[2].expanded
    /\ \E q \in 1..Len(pending) : pending[q].idx = 2

----------------------------------------------------------------------------
\* a record as a run start creates it
isFresh(rec) ==
    /\ rec.loading
    /\ rec.result = null
    /\ rec.error = undefined
    /\ ~rec.expanded

\* C16: the step that starts a run replaces the record list wholesale. Right
\* after it the records are those of the criteria block now in the box and no
\* others, every one of them loading, without verdict, without error message
\* and collapsed; the in-progress flag is set and the run-level error message
\* is cleared.
C16_Step ==
    starts =>
        /\ loading'
        /\ error' = ""
        /\ holdsLinesOf(texts(analyses'), criteria)
        /\ \A k \in 1..Len(analyses') : isFresh(analyses'[k])

C16_StartReplacesRecords == [][C16_Step]_vars

\* right after a start over two criteria, the first request just sent
C16_Witness ==
    /\ loading
    /\ error = ""
    /\ Len(analyses) = 2
    /\ \A k \in 1..Len(analyses) : isFresh(analyses[k])
    /\ log = <<<<"send", 1>>>>

----------------------------------------------------------------------------
hasVerdict(rec) == rec.result # null

hasError(rec) == rec.error # undefined

\* settled with exactly one of verdict and error message
settledOneWay(rec) == ~rec.loading /\ (hasVerdict(rec) # hasError(rec))

\* still loading, with neither verdict nor error message
untouched(rec) == rec.loading /\ ~hasVerdict(rec) /\ ~hasError(rec)

\* the records below index i are settled, those from i on are untouched
C18_Prefix ==
    \A q \in 1..Len(pending) :
        \A k \in 1..Len(analyses) :
            IF k < pending[q].idx THEN settledOneWay(analyses[k])
            ELSE untouched(analyses[k])

\* a settled record keeps its verdict and its error until a run starts
C18_Step ==
    ~starts =>
        /\ Len(analyses') = Len(analyses)
        /\ \A k \in 1..Len(analyses) :
              ~analyses[k].loading =>
                  /\ analyses'[k].result = analyses[k].result
                  /\ analyses'[k].error = analyses[k].error
                  /\ ~analyses'[k].loading

\* C18: whenever the request for index i is pending, every record below i is
\* settled (not loading, with exactly one of verdict and error message) and
\* every record from i on is loading with neither; and a settled record's
\* verdict and error message stay as they are until a new run starts.
C18_PrefixInvariant == []C18_Prefix /\ [][C18_Step]_vars

\* the request of index 2 is pending behind a settled record
C18_Witness ==
    /\ Len(analyses) = 2
    /\ \E q \in 1..Len(pending) : pending[q].idx = 2
    /\ settledOneWay(analyses[1])
    /\ untouched(analyses[2])

----------------------------------------------------------------------------
\* C19: in every reachable state in which the in-progress flag is false, no
\* record is loading.
C19_IdleMeansNoSpinner ==
    ~loading => \A k \in 1..Len(analyses) : ~analyses[k].loading

\* a finished run: the flag is down and both records are settled
C19_Witness ==
    /\ ~loading
    /\ Len(analyses) = 2
    /\ \A k \in 1..Len(analyses) : ~analyses[k].loading
    /\ log[Len(log)] \in {<<"ok", 2>>, <<"fail", 2>>}

----------------------------------------------------------------------------
\* this step edits one of the two text boxes
edits == prompt' # prompt \/ criteria' # criteria

\* this step sends a request; it is the last one of pending'
sendsOne == log' # log /\ log'[Len(log')][1] = "send"

sent == pending'[Len(pending')]

\* C20: a run works on a snapshot taken when it starts. The first request
\* carries the prompt of the box, trimmed, as it is at the start; every later
\* request carries the same prompt as the request before it, whatever the box
\* holds by then; every request carries the criterion text of the record at
\* its index, which is the text of the block at the start (C1); and an edit of
\* either box changes neither the records nor the requests nor the run.
C20_Step ==
    /\ edits => UNCHANGED <<analyses, pending, runs, loading, error, log>>
    /\ sendsOne =>
          /\ sent.idx = log'[Len(log')][2]
          /\ sent.criterion = analyses'[sent.idx].criterion
          /\ IF starts
             THEN /\ sent.idx = 1
                  /\ sent.prompt = stripped(prompt)
                  /\ holdsLinesOf(texts(analyses'), criteria)
             ELSE /\ analyses'[sent.idx].criterion = analyses[sent.idx].criterion
                  /\ \E q \in 1..Len(pending) :
                        /\ pending[q].idx = sent.idx - 1
                        /\ sent.prompt = pending[q].prompt

C20_RunUsesSnapshot == [][C20_Step]_vars

\* the second request of a run is pending with the prompt of the start, while
\* the prompt box has been edited to a blank and the criteria box emptied
C20_Witness ==
    /\ loading
    /\ Len(pending) = 1
    /\ pending[1].idx = 2
    /\ pending[1].prompt = <<"p">>
    /\ pending[1].criterion = analyses[2].criterion
    /\ prompt = <<SP>>
    /\ criteria = <<>>

----------------------------------------------------------------------------
\* the provider has answered the handler's call with a non-success status
upstreamFailed == svc.upstream.status # 0 /\ svc.upstream.status \notin 200..299

\* this step hands the handler's reply, or its loss, to the page
handsOver == svc.pc = "done" /\ svc'.pc = "idle"

\* C12: when the provider answers with a non-success status s, the service
\* responds with status s and the message that embeds the provider's error
\* text; and the step in which the page takes that reply marks the record of
\* the criterion that was asked about, and no other, as errored (not loading,
\* no verdict, error message set), then continues the run: the request of the
\* next index goes out, or after the last index the run ends with the
\* in-progress flag cleared.
C12_Step ==
    /\ (svc.pc = "provider" /\ upstreamFailed') =>
          /\ svc'.pc = "done"
          /\ response' = [status |-> svc'.upstream.status,
                          message |-> <<"Error from Claude API: ", svc'.upstream.text>>,
                          json |-> undefined]
    /\ (upstreamFailed /\ handsOver) =>
          \E k \in 1..Len(analyses) :
              /\ pending = <<[prompt |-> svc.body.prompt, criterion |-> svc.body.criterion, idx |-> k]>>
              /\ analyses[k].criterion = svc.body.criterion
              /\ logs(<<"fail", k>>)
              /\ Len(analyses') = Len(analyses)
              /\ ~analyses'[k].loading
              /\ analyses'[k].result = null
              /\ analyses'[k].error # undefined
              /\ analyses'[k].expanded = analyses[k].expanded
              /\ \A j \in 1..Len(analyses) : j # k => analyses'[j] = analyses[j]
              /\ IF k < Len(analyses)
                 THEN /\ loading'
                      /\ Len(pending') = 1 /\ pending'[1].idx = k + 1
                      /\ log'[Len(log')] = <<"send", k + 1>>
                 ELSE /\ ~loading'
                      /\ pending' = <<>>

C12_UpstreamErrorPassesThrough == [][C12_Step]_vars

\* the provider has failed the second criterion with 429, the service answers
\* 429, and the first record is errored by the reply to its own request
C12_Witness ==
    /\ svc.pc = "done"
    /\ svc.upstream.status = 429
    /\ response.status = 429
    /\ Len(analyses) = 2
    /\ analyses[1].error = MsgFailed /\ ~analyses[1].loading
    /\ analyses[2].loading
    /\ Len(pending) = 1 /\ pending[1].idx = 2

----------------------------------------------------------------------------
\* how many times the log holds the event ev
count(ev) == Cardinality({j \in 1..Len(log) : log[j] = ev})

\* the indices for which a request has been issued in this run
sentIndices == {k \in 1..Len(analyses) : count(<<"send", k>>) > 0}

\* C17: there are no retries. In a run over n criteria no index is ever
\* requested twice and no index settles twice, the requests issued so far are
\* those of the indices up to the current one, and once the run is over
\* exactly one request has been issued for each of the n indices, whatever
\* the outcomes; and for one incoming request the service has issued at most
\* one request to the provider, that of the incoming request's prompt and
\* criterion.
C17_NoRetries ==
    /\ \A k \in 1..Len(analyses) :
          /\ count(<<"send", k>>) <= 1
          /\ count(<<"ok", k>>) + count(<<"fail", k>>) <= count(<<"send", k>>)
    /\ \A k \in sentIndices : \A j \in 1..k : j \in sentIndices
    /\ Len(log) <= 2 * Len(analyses)
    /\ ~loading =>
          /\ sentIndices = 1..Len(analyses)
          /\ \A k \in 1..Len(analyses) : count(<<"ok", k>>) + count(<<"fail", k>>) = 1
    /\ Len(providerCalls) <= 1
    /\ svc.pc = "provider" =>
          /\ Len(providerCalls) = 1
          /\ providerCalls[1].prompt = svc.body.prompt
          /\ providerCalls[1].criterion = svc.body.criterion

\* a run over two criteria is over: one failed, one succeeded, and the last
\* incoming request made its one call to the provider
C17_Witness ==
    /\ ~loading
    /\ Len(analyses) = 2
    /\ log = <<<<"send", 1>>, <<"fail", 1>>, <<"send", 2>>, <<"ok", 2>>>>
    /\ Len(providerCalls) = 1

============================================================================
